---- MODULE Spec2Model ----
(***************************************************************************)
(* A model of electron-ipc-socket: two Socket instances (src/src/socket.ts)*)
(* over a connected pair of Transports (src/unnamed/part_000).  A message  *)
(* sent by one socket on a sub-channel stays in flight until the peer's    *)
(* transport delivers it to the listeners registered for that sub-channel. *)
(* Time is an integer clock; the sweep of an open socket fires on schedule.*)
(***************************************************************************)
EXTENDS Integers, Sequences, FiniteSets, TLC

\* ------------------------------------------------------------------ bounds
MaxReq == 1
MaxTime == 2
MaxHandlers == 1

MaxSetting == 2
MaxClock == 5
MaxOutstanding == 2
MaxSubscriptions == 2
MaxCancels == 2
MaxEventHandlers == 2
MaxErrors == 2
MaxDeliveries == 3

\* ------------------------------------------------------------ the universe
Sockets == {"A", "B"}
Requesters == {"A"}
Responders == {"B"}
Channels == {"c1", "c2"}
Paths == {"p", "q"}
Payloads == {<<"x">>}
MatchPayloads == {<<"x">>, <<"y">>}

\* the subscriptions __subscribe wraps when once is true
OnceKinds == {"event", "request", "error"}

\* no once-subscription has been made
NoOnce == [kind |-> "none", unbind |-> FALSE, bound |-> FALSE, running |-> 0,
           invoked |-> 0, deliveries |-> 0, thrown |-> 0]
Behaviours == {"value", "error", "throw", "async"}

Peer(s) == IF s = "A" THEN "B" ELSE "A"

REQUESTS == "requests"
RESPONSES == "responses"
EVENTS == "events"

\* `${channel}:${kind}`; an unset channel prints as "undefined"
SubChannel(ch, kind) == <<ch, kind>>

\* --------------------------------------------------------------- the errors
\* an error is its class, its message text (data) and, for a not-found error,
\* the path it names (field)
ConnectionLostError ==
    [type |-> "ConnectionLostError", data |-> <<"connection lost">>, field |-> ""]
TimeoutError == [type |-> "TimeoutError", data |-> <<"timeout">>, field |-> ""]
NotFoundError(path) ==
    [type |-> "NotFoundError", data |-> <<"not found", path>>, field |-> path]
UnhandledExceptionError(e) ==
    [type |-> "UnhandledExceptionError", data |-> <<"unhandled">> \o e.data, field |-> ""]
\* what a user's handler returns as an error value, throws, or rejects with
Boom == [type |-> "Error", data |-> <<"boom">>, field |-> ""]
\* what the transport's send raises
SendFailure == [type |-> "Error", data |-> <<"send failed">>, field |-> ""]

\* err.message: the text of an error
Message(e) == e.data
\* new Error(err.toString()) for a message text received from the wire
ErrorFromText(text) == [type |-> "Error", data |-> text, field |-> ""]
\* `err ? ... : ...` on a message text: the empty text is falsy
Truthy(text) == text # <<>>

\* what the user's request handler returns for a payload
HandlerValue(payload) == <<"h">> \o payload

\* ------------------------------------------------------- OutboundRequest
\* the state of a request's future: unsettled, resolved with a value, or
\* rejected with an error
Unsettled == [state |-> "unsettled", type |-> "", data |-> <<>>, field |-> ""]
Resolved(v) == [state |-> "resolved", type |-> "value", data |-> v, field |-> ""]
Rejected(e) == [state |-> "rejected", type |-> e.type, data |-> e.data, field |-> e.field]

NewOutboundRequest(owner, path, payload, time) ==
    [owner |-> owner, path |-> path, payload |-> payload, timestamp |-> time,
     outcome |-> Unsettled, settles |-> 0, calls |-> 0]

IsDisposed(r) == r.outcome.state # "unsettled"

\* resolve() and reject(): the first call settles the future, a call on a
\* request that has settled is a no-op; calls counts the calls, settles the
\* times the future's callbacks ran
Settle(r, outcome) ==
    IF IsDisposed(r) THEN [r EXCEPT !.calls = r.calls + 1]
    ELSE [r EXCEPT !.outcome = outcome, !.settles = r.settles + 1, !.calls = r.calls + 1]

\* reject every request of the set ids with error e
RejectAll(reqs, ids, e) ==
    [i \in DOMAIN reqs |-> IF i \in ids THEN Settle(reqs[i], Rejected(e)) ELSE reqs[i]]

VARIABLES
    now,              \* Date.now()
    freeClears,       \* whether @free leaves a released field unset: "unknown" until a dispose()
    isDisposed,       \* Disposable flag of each socket
    isOpen,           \* Socket.__isOpen
    channel,          \* Socket.__channel ("undefined" when unset)
    hasTable,         \* Socket.__pendingRequests != null
    pendingRequests,  \* ids in Socket.__pendingRequests
    subscriptions,    \* Socket.__subscriptions: listener ids of the cancel handles
    listeners,        \* Transport.__listeners: id -> sub-channel
    transportDisposed,\* the socket's Transport has been disposed
    requestTimeout,   \* Socket.__requestTimeout, from settings.timeout
    cleanupTime,      \* the interval's time, from settings.cleanup
    running,          \* Interval.isRunning
    nextTick,         \* time of the next sweep tick
    requestHandlers,  \* bus listeners under BUS_REQUESTS/path, in order
    eventHandlers,    \* number of bus listeners under BUS_EVENTS/name
    errorEvents,      \* number of 'error' events published on the bus
    errorTimers,      \* error events deferred with setTimeout, not yet published
    requests,         \* every OutboundRequest created so far, by id
    net,              \* messages in flight between the transports
    jobs,             \* deferred handler results not settled yet
    answers,          \* per request id, the responses sent for it, by kind, in order
    inputListeners,   \* listeners registered on the Transport's underlying input
    handles,          \* cancel handles Transport.on returned to a direct caller:
                      \* per id, the number of times the handle was called
    errorHandlers,    \* number of bus listeners under 'error'
    escaped,          \* exceptions that left an inbound listener of the socket into the transport
    sendCalls,        \* per request id, the calls of transport.send made to answer it
    onceSub,          \* the once-subscription of each socket: kind; unbind: the wrapper's
                      \* variable is set; bound: the wrapper is on the bus; running:
                      \* invocations of the listener in progress; invoked: calls of the
                      \* listener; deliveries; thrown: exceptions that left the wrapper
    lastCall          \* per socket: Returned, or the last call if it raised, and its error

vars == <<now, requestTimeout, cleanupTime, freeClears, isDisposed, isOpen, channel,
          hasTable, pendingRequests, subscriptions, listeners, transportDisposed,
          running, nextTick, requestHandlers, eventHandlers, errorEvents, errorTimers,
          requests, net, jobs, answers, inputListeners, handles, errorHandlers, escaped,
          sendCalls, onceSub, lastCall>>

Returned == [op |-> "", err |-> "none"]
Raised(op, err) == [op |-> op, err |-> err]
\* the call op on socket s has ended with err ("none": it returned)
Call(s, op, err) ==
    lastCall' = [lastCall EXCEPT ![s] = IF err = "none" THEN Returned ELSE Raised(op, err)]

\* the state after new Socket(transport, { timeout, cleanup }) on both ends
InitWith(timeout, cleanup) ==
    /\ now = 0
    /\ requestTimeout = timeout
    /\ cleanupTime = cleanup
    /\ freeClears = "unknown"
    /\ isDisposed = [s \in Sockets |-> FALSE]
    /\ isOpen = [s \in Sockets |-> FALSE]
    /\ channel = [s \in Sockets |-> "undefined"]
    /\ hasTable = [s \in Sockets |-> FALSE]
    /\ pendingRequests = [s \in Sockets |-> {}]
    /\ subscriptions = [s \in Sockets |-> {}]
    /\ listeners = [s \in Sockets |-> {}]
    /\ transportDisposed = [s \in Sockets |-> FALSE]
    /\ running = [s \in Sockets |-> FALSE]
    /\ nextTick = [s \in Sockets |-> 0]
    /\ requestHandlers = [s \in Sockets |-> [p \in Paths |-> <<>>]]
    /\ eventHandlers = [s \in Sockets |-> 0]
    /\ errorEvents = [s \in Sockets |-> 0]
    /\ errorTimers = [s \in Sockets |-> 0]
    /\ requests = <<>>
    /\ net = {}
    /\ jobs = {}
    /\ answers = <<>>
    /\ inputListeners = [s \in Sockets |-> {}]
    /\ handles = [s \in Sockets |-> [i \in {} |-> 0]]
    /\ errorHandlers = [s \in Sockets |-> 0]
    /\ escaped = [s \in Sockets |-> 0]
    /\ sendCalls = <<>>
    /\ onceSub = [s \in Sockets |-> NoOnce]
    /\ lastCall = [s \in Sockets |-> Returned]

Init == InitWith(1, 1)

\* any settings
SettingsInit == \E timeout \in 1..MaxSetting, cleanup \in 1..MaxSetting : InitWith(timeout, cleanup)

\* ------------------------------------------------------------- Transport
\* Transport.on: one bookkeeping entry per subscription, under a fresh id
TransportOn(ls, id, chan) == ls \cup {[id |-> id, chan |-> chan]}

\* a cancel handle that removes nothing
UnsubscribeNothing(ls, ids) == ls

\* Transport.__unsubscribe, for each id of the set ids
Unsubscribe(ls, ids) == {l \in ls : l.id \notin ids}

\* nanoid(): the k-th id not in use in ls
RECURSIVE FreshId(_, _, _)
FreshId(ls, k, from) ==
    IF \E l \in ls : l.id = from THEN FreshId(ls, k, from + 1)
    ELSE IF k = 1 THEN from
    ELSE FreshId(ls, k - 1, from + 1)

\* this.__input.on(channel, listener): a registration on the underlying input
InputOn(regs, id, chan) == regs \cup {[id |-> id, chan |-> chan]}

\* a cancel that leaves the listener registered on the input
InputRemoveNothing(regs, ls, ids) == regs

\* this.__input.removeListener(pair.channel, pair.fn), for each entry of ls
\* whose id is in ids
InputRemove(regs, ls, ids) == regs \ {l \in ls : l.id \in ids}

\* the underlying input has a listener registered for the sub-channel
HasListener(s, chan) == \E l \in inputListeners[s] : l.chan = chan

\* nanoid() for a direct caller of on(): an id no handle ever had
TransportId(s) ==
    FreshId(listeners[s] \cup {[id |-> i, chan |-> <<>>] : i \in DOMAIN handles[s]}, 1, 1)

\* transport.on(channel, subscriber), called on the Transport itself
TransportSubscribe(s, chan) ==
    /\ IF transportDisposed[s]
       THEN /\ Call(s, "transport.on", "Disposed")
            /\ UNCHANGED <<listeners, inputListeners, handles>>
       ELSE /\ listeners' = [listeners EXCEPT ![s] = TransportOn(@, TransportId(s), chan)]
            /\ inputListeners' = [inputListeners EXCEPT ![s] =
                   InputOn(@, TransportId(s), chan)]
            /\ handles' = [handles EXCEPT ![s] =
                   [i \in DOMAIN @ \cup {TransportId(s)} |->
                       IF i \in DOMAIN @ THEN @[i] ELSE 0]]
            /\ Call(s, "transport.on", "none")
    /\ UNCHANGED <<now, requestTimeout, cleanupTime, freeClears, isDisposed, isOpen,
                   channel, hasTable, pendingRequests, subscriptions, transportDisposed,
                   running, nextTick, requestHandlers, eventHandlers, errorEvents,
                   errorTimers, requests, net, jobs, answers, errorHandlers, escaped,
                   sendCalls, onceSub>>

\* a cancel handle on() returned is called: __unsubscribe(id)
TransportCancel(s, id) ==
    /\ id \in DOMAIN handles[s]
    /\ handles' = [handles EXCEPT ![s][id] = @ + 1]
    /\ IF transportDisposed[s]
       THEN UNCHANGED <<listeners, inputListeners>>
       ELSE /\ listeners' = [listeners EXCEPT ![s] = Unsubscribe(@, {id})]
            /\ inputListeners' = [inputListeners EXCEPT ![s] =
                   InputRemove(@, listeners[s], {id})]
    /\ Call(s, "cancel", "none")
    /\ UNCHANGED <<now, requestTimeout, cleanupTime, freeClears, isDisposed, isOpen,
                   channel, hasTable, pendingRequests, subscriptions, transportDisposed,
                   running, nextTick, requestHandlers, eventHandlers, errorEvents,
                   errorTimers, requests, net, jobs, answers, errorHandlers, escaped,
                   sendCalls, onceSub>>

\* transport.dispose(), called on the Transport itself for the first time
TransportDispose(s) ==
    /\ ~transportDisposed[s]
    /\ transportDisposed' = [transportDisposed EXCEPT ![s] = TRUE]
    /\ listeners' = [listeners EXCEPT ![s] = Unsubscribe(@, {l.id : l \in @})]
    /\ inputListeners' = [inputListeners EXCEPT ![s] =
           InputRemove(@, listeners[s], {l.id : l \in listeners[s]})]
    /\ Call(s, "transport.dispose", "none")
    /\ UNCHANGED <<now, requestTimeout, cleanupTime, freeClears, isDisposed, isOpen,
                   channel, hasTable, pendingRequests, subscriptions, running, nextTick,
                   requestHandlers, eventHandlers, errorEvents, errorTimers, requests,
                   net, jobs, answers, handles, errorHandlers, escaped, sendCalls,
                   onceSub>>

\* transport.send(channel, ...args), called on the Transport itself
TransportSend(s, chan) ==
    /\ IF transportDisposed[s]
       THEN /\ Call(s, "transport.send", "Disposed")
            /\ UNCHANGED net
       ELSE /\ net' = net \cup {[kind |-> EVENTS, to |-> Peer(s), chan |-> chan,
                                 path |-> "evt", id |-> 0, err |-> <<>>,
                                 payload |-> <<>>, n |-> 0]}
            /\ Call(s, "transport.send", "none")
    /\ UNCHANGED <<now, requestTimeout, cleanupTime, freeClears, isDisposed, isOpen,
                   channel, hasTable, pendingRequests, subscriptions, listeners,
                   inputListeners, transportDisposed, running, nextTick,
                   requestHandlers, eventHandlers, errorEvents, errorTimers, requests,
                   jobs, answers, handles, errorHandlers, escaped, sendCalls, onceSub>>

\* --------------------------------------------------------------- Socket
\* @protect({ err: true }): the call is refused once the owner is disposed
Protect(s) == isDisposed[s]

\* open() without its state check
OpenUnchecked(s) == TRUE

\* assert(SocketOpenError, !this.isOpen)
OpenAssert(s) == ~isOpen[s]

\* assert(SocketClosedError, this.isOpen)
CloseAssert(s) == isOpen[s]

\* open() going on with the table of the session before
KeptTable(s) == pendingRequests

\* this.__pendingRequests = Object.create(null)
NewTable(s) == [pendingRequests EXCEPT ![s] = {}]

\* requests[req.id] = req
Added(s, id) == [pendingRequests EXCEPT ![s] = @ \cup {id}]

\* a delete that leaves the entry where it is
DeleteNothing(table, s, ids) == table

\* delete requests[id] on the given table of socket s, for each id of ids
Delete(table, s, ids) == [table EXCEPT ![s] = @ \ ids]

\* a table that keeps the entries it should delete
ForgetNothing(s, ids) == pendingRequests

\* delete requests[id] on the pending-request table, for each id of the set ids
Forget(s, ids) == Delete(pendingRequests, s, ids)

\* no event is published
PublishNothing(s) == errorEvents

\* this.__bus.emit('error', ...) on socket s
PublishError(s) == [errorEvents EXCEPT ![s] = @ + 1]

Open(s, ch) ==
    /\ IF Protect(s)
       THEN /\ Call(s, "open", "Disposed")
            /\ UNCHANGED <<isOpen, channel, hasTable, pendingRequests, subscriptions,
                           listeners, inputListeners, running, nextTick>>
       ELSE IF ~OpenAssert(s)
       THEN /\ Call(s, "open", "SocketOpen")
            /\ UNCHANGED <<isOpen, channel, hasTable, pendingRequests, subscriptions,
                           listeners, inputListeners, running, nextTick>>
       ELSE /\ listeners' = [listeners EXCEPT ![s] =
                   TransportOn(TransportOn(TransportOn(@,
                       FreshId(@, 1, 1), SubChannel(ch, EVENTS)),
                       FreshId(@, 2, 1), SubChannel(ch, REQUESTS)),
                       FreshId(@, 3, 1), SubChannel(ch, RESPONSES))]
            /\ inputListeners' = [inputListeners EXCEPT ![s] =
                   InputOn(InputOn(InputOn(@,
                       FreshId(listeners[s], 1, 1), SubChannel(ch, EVENTS)),
                       FreshId(listeners[s], 2, 1), SubChannel(ch, REQUESTS)),
                       FreshId(listeners[s], 3, 1), SubChannel(ch, RESPONSES))]
            /\ subscriptions' = [subscriptions EXCEPT ![s] =
                   {FreshId(listeners[s], k, 1) : k \in 1..3}]
            /\ isOpen' = [isOpen EXCEPT ![s] = TRUE]
            /\ channel' = [channel EXCEPT ![s] = ch]
            /\ hasTable' = [hasTable EXCEPT ![s] = TRUE]
            /\ pendingRequests' = NewTable(s)
            /\ running' = [running EXCEPT ![s] = TRUE]
            /\ nextTick' = [nextTick EXCEPT ![s] = now + cleanupTime]
            /\ Call(s, "open", "none")
    /\ UNCHANGED <<now, requestTimeout, cleanupTime, freeClears, isDisposed,
                   transportDisposed, requestHandlers, eventHandlers, errorEvents,
                   errorTimers, requests, net, jobs, answers, handles, errorHandlers,
                   escaped, sendCalls, onceSub>>

\* the body of close(), after its guards
CloseBody(s) ==
    /\ isOpen' = [isOpen EXCEPT ![s] = FALSE]
    /\ channel' = [channel EXCEPT ![s] = "undefined"]
    /\ running' = [running EXCEPT ![s] = FALSE]
    /\ nextTick' = [nextTick EXCEPT ![s] = 0]
    /\ listeners' = [listeners EXCEPT ![s] = Unsubscribe(@, subscriptions[s])]
    /\ inputListeners' = [inputListeners EXCEPT ![s] =
           InputRemove(@, listeners[s], subscriptions[s])]
    /\ requests' = IF hasTable[s]
                   THEN RejectAll(requests, pendingRequests[s], ConnectionLostError)
                   ELSE requests
    /\ UNCHANGED <<hasTable, pendingRequests, subscriptions>>

Close(s) ==
    /\ IF Protect(s)
       THEN /\ Call(s, "close", "Disposed")
            /\ UNCHANGED <<isOpen, channel, hasTable, pendingRequests, subscriptions,
                           listeners, inputListeners, running, nextTick, requests>>
       ELSE IF ~CloseAssert(s)
       THEN /\ Call(s, "close", "SocketClosed")
            /\ UNCHANGED <<isOpen, channel, hasTable, pendingRequests, subscriptions,
                           listeners, inputListeners, running, nextTick, requests>>
       ELSE /\ CloseBody(s)
            /\ Call(s, "close", "none")
    /\ UNCHANGED <<now, requestTimeout, cleanupTime, freeClears, isDisposed,
                   transportDisposed, requestHandlers, eventHandlers, errorEvents,
                   errorTimers, net, jobs, answers, handles, errorHandlers, escaped,
                   sendCalls, onceSub>>

\* how the body of dispose() ends once super.dispose() has released the fields:
\* the bus is used next, then close() is called on a socket that is still open
DisposeOutcome(s, clears) ==
    IF clears THEN "TypeError"
    ELSE IF isOpen[s] THEN "Disposed"
    ELSE "none"

\* dispose(); clears: what the library's @free does with a released field
Dispose(s, clears) ==
    /\ freeClears \in {"unknown", IF clears THEN "yes" ELSE "no"}
    /\ IF Protect(s)
       THEN /\ Call(s, "dispose", "Disposed")
            /\ UNCHANGED <<freeClears, isDisposed, hasTable, pendingRequests,
                           subscriptions, listeners, inputListeners, transportDisposed,
                           running, nextTick, requestHandlers, eventHandlers,
                           errorHandlers>>
       ELSE /\ freeClears' = IF clears THEN "yes" ELSE "no"
            /\ isDisposed' = [isDisposed EXCEPT ![s] = TRUE]
            \* @free() __transport: Transport.dispose()
            /\ listeners' = [listeners EXCEPT ![s] = {}]
            /\ inputListeners' = [inputListeners EXCEPT ![s] =
                   InputRemove(@, listeners[s], {l.id : l \in listeners[s]})]
            /\ transportDisposed' = [transportDisposed EXCEPT ![s] = TRUE]
            \* @free({ call: unbindAll }) __bus
            /\ requestHandlers' = [requestHandlers EXCEPT ![s] = [p \in Paths |-> <<>>]]
            /\ eventHandlers' = [eventHandlers EXCEPT ![s] = 0]
            /\ errorHandlers' = [errorHandlers EXCEPT ![s] = 0]
            \* @free({ call: 'stop', check: 'isRunning' }) __interval
            /\ running' = [running EXCEPT ![s] = FALSE]
            /\ nextTick' = [nextTick EXCEPT ![s] = 0]
            \* @free() __pendingRequests, @free() __subscriptions
            /\ hasTable' = [hasTable EXCEPT ![s] = IF clears THEN FALSE ELSE @]
            /\ pendingRequests' = [pendingRequests EXCEPT ![s] = IF clears THEN {} ELSE @]
            /\ subscriptions' = [subscriptions EXCEPT ![s] = IF clears THEN {} ELSE @]
            /\ Call(s, "dispose", DisposeOutcome(s, clears))
    /\ UNCHANGED <<now, requestTimeout, cleanupTime, isOpen, channel, errorEvents,
                   errorTimers, requests, net, jobs, answers, handles, escaped,
                   sendCalls, onceSub>>

\* "no error": the undefined err argument of __sendResponse
NoError == [type |-> "", data |-> <<>>, field |-> ""]
IsError(e) == e.type # ""

\* a response that always carries the id of the first request
ResponseMsgFirstId(s, path, id, err, payload, n) ==
    [kind |-> RESPONSES, to |-> Peer(s), chan |-> SubChannel(channel[s], RESPONSES),
     path |-> path, id |-> 1,
     err |-> IF IsError(err) THEN Message(err) ELSE <<>>,
     payload |-> IF IsError(err) THEN <<>> ELSE payload,
     n |-> n]

\* the message __sendResponse hands to the transport: only the text of an
\* error crosses the wire, and the payload is null when there is an error
ResponseMsg(s, path, id, err, payload, n) ==
    [kind |-> RESPONSES, to |-> Peer(s), chan |-> SubChannel(channel[s], RESPONSES),
     path |-> path, id |-> id,
     err |-> IF IsError(err) THEN Message(err) ELSE <<>>,
     payload |-> IF IsError(err) THEN <<>> ELSE payload,
     n |-> n]

RequestMsg(s, path, id, payload) ==
    [kind |-> REQUESTS, to |-> Peer(s), chan |-> SubChannel(channel[s], REQUESTS),
     path |-> path, id |-> id, err |-> <<>>, payload |-> payload, n |-> 0]

EventMsg(s, payload) ==
    [kind |-> EVENTS, to |-> Peer(s), chan |-> SubChannel(channel[s], EVENTS),
     path |-> "evt", id |-> 0, err |-> <<>>, payload |-> payload, n |-> 0]

TotalHandlers(s) == Len(requestHandlers[s]["p"]) + Len(requestHandlers[s]["q"])

\* request(path, payload); fails: the transport's send raises
Request(s, path, payload, fails) ==
    /\ IF Protect(s)
       THEN /\ Call(s, "request", "Disposed")
            /\ UNCHANGED <<requests, pendingRequests, net, errorEvents, answers,
                           sendCalls>>
       ELSE IF ~isOpen[s]
       THEN /\ Call(s, "request", "SocketClosed")
            /\ UNCHANGED <<requests, pendingRequests, net, errorEvents, answers,
                           sendCalls>>
       ELSE /\ hasTable[s]
            /\ LET id == Len(requests) + 1
                   req == NewOutboundRequest(s, path, payload, now)
               IN  IF ~fails
                   THEN /\ requests' = Append(requests, req)
                        /\ pendingRequests' = Added(s, id)
                        /\ net' = net \cup {RequestMsg(s, path, id, payload)}
                        /\ UNCHANGED errorEvents
                   ELSE /\ requests' = Append(requests,
                               Settle(req, Rejected(UnhandledExceptionError(SendFailure))))
                        /\ pendingRequests' = Delete(Added(s, id), s, {id})
                        /\ errorEvents' = PublishError(s)
                        /\ UNCHANGED net
            /\ answers' = Append(answers, <<>>)
            /\ sendCalls' = Append(sendCalls, 0)
            /\ Call(s, "request", "none")
    /\ UNCHANGED <<now, requestTimeout, cleanupTime, freeClears, isDisposed, isOpen,
                   channel, hasTable, subscriptions, listeners, transportDisposed,
                   running, nextTick, requestHandlers, eventHandlers, errorTimers, jobs,
                   inputListeners, handles, errorHandlers, escaped, onceSub>>

\* send(event, payload)
Send(s, payload) ==
    /\ IF Protect(s)
       THEN /\ Call(s, "send", "Disposed")
            /\ UNCHANGED net
       ELSE IF ~isOpen[s]
       THEN /\ Call(s, "send", "SocketClosed")
            /\ UNCHANGED net
       ELSE /\ net' = net \cup {EventMsg(s, payload)}
            /\ Call(s, "send", "none")
    /\ UNCHANGED <<now, requestTimeout, cleanupTime, freeClears, isDisposed, isOpen,
                   channel, hasTable, pendingRequests, subscriptions, listeners,
                   transportDisposed, running, nextTick, requestHandlers, eventHandlers,
                   errorEvents, errorTimers, requests, jobs, answers, inputListeners,
                   handles, errorHandlers, escaped, sendCalls, onceSub>>

\* what __subscribe does on a socket whose bus has been released: the bus is
\* used without any guard
SubscribeOutcome(s) == IF isDisposed[s] /\ freeClears = "yes" THEN "TypeError" ELSE "none"

\* onRequest(path, handler); beh is how the handler answers
OnRequest(s, path, beh) ==
    /\ requestHandlers' =
           IF SubscribeOutcome(s) = "none"
           THEN [requestHandlers EXCEPT ![s][path] = Append(@, beh)]
           ELSE requestHandlers
    /\ Call(s, "onRequest", SubscribeOutcome(s))
    /\ UNCHANGED <<now, requestTimeout, cleanupTime, freeClears, isDisposed, isOpen,
                   channel, hasTable, pendingRequests, subscriptions, listeners,
                   transportDisposed, running, nextTick, eventHandlers, errorEvents,
                   errorTimers, requests, net, jobs, answers, inputListeners, handles,
                   errorHandlers, escaped, sendCalls, onceSub>>

\* onEvent(name, handler)
OnEvent(s) ==
    /\ eventHandlers' =
           IF SubscribeOutcome(s) = "none"
           THEN [eventHandlers EXCEPT ![s] = @ + 1]
           ELSE eventHandlers
    /\ Call(s, "onEvent", SubscribeOutcome(s))
    /\ UNCHANGED <<now, requestTimeout, cleanupTime, freeClears, isDisposed, isOpen,
                   channel, hasTable, pendingRequests, subscriptions, listeners,
                   transportDisposed, running, nextTick, requestHandlers, errorEvents,
                   errorTimers, requests, net, jobs, answers, inputListeners, handles,
                   errorHandlers, escaped, sendCalls, onceSub>>

\* ------------------------------------------------------ inbound messages
\* the transport hands a message to the listeners of its sub-channel
Arrives(m) == m \in net /\ HasListener(m.to, m.chan)

\* a message that finds no listener on its sub-channel is lost
Drop(m) ==
    /\ m \in net
    /\ ~HasListener(m.to, m.chan)
    /\ net' = net \ {m}
    /\ UNCHANGED <<now, requestTimeout, cleanupTime, freeClears, isDisposed, isOpen,
                   channel, hasTable, pendingRequests, subscriptions, listeners,
                   transportDisposed, running, nextTick, requestHandlers, eventHandlers,
                   errorEvents, errorTimers, requests, jobs, answers, lastCall,
                   inputListeners, handles, errorHandlers, escaped, sendCalls, onceSub>>

\* onError(handler)
OnError(s) ==
    /\ errorHandlers' =
           IF SubscribeOutcome(s) = "none"
           THEN [errorHandlers EXCEPT ![s] = @ + 1]
           ELSE errorHandlers
    /\ Call(s, "onError", SubscribeOutcome(s))
    /\ UNCHANGED <<now, requestTimeout, cleanupTime, freeClears, isDisposed, isOpen,
                   channel, hasTable, pendingRequests, subscriptions, listeners,
                   transportDisposed, running, nextTick, requestHandlers, eventHandlers,
                   errorEvents, errorTimers, requests, net, jobs, answers,
                   inputListeners, handles, escaped, sendCalls, onceSub>>

\* onEvent / onRequest / onError(handler, once = true): __subscribe puts a
\* wrapper on the bus and keeps its unbind function in a variable
SubscribeOnce(s, kind) ==
    /\ onceSub[s].kind = "none"
    /\ SubscribeOutcome(s) = "none"
    /\ onceSub' = [onceSub EXCEPT ![s] = [NoOnce EXCEPT !.kind = kind, !.unbind = TRUE,
                                                        !.bound = TRUE]]
    /\ Call(s, "on" \o kind, "none")
    /\ UNCHANGED <<now, requestTimeout, cleanupTime, freeClears, isDisposed, isOpen,
                   channel, hasTable, pendingRequests, subscriptions, listeners,
                   transportDisposed, running, nextTick, requestHandlers,
                   eventHandlers, errorEvents, errorTimers, requests, net, jobs,
                   answers, inputListeners, handles, errorHandlers, escaped, sendCalls>>

\* the cancel handle __subscribe returned for a once-subscription is called:
\* it calls unbind while the variable is set, and leaves the variable set
CancelOnce(s) ==
    /\ onceSub[s].kind # "none"
    /\ onceSub' = [onceSub EXCEPT ![s].bound = IF onceSub[s].unbind THEN FALSE ELSE @]
    /\ UNCHANGED <<now, requestTimeout, cleanupTime, freeClears, isDisposed, isOpen,
                   channel, hasTable, pendingRequests, subscriptions, listeners,
                   transportDisposed, running, nextTick, requestHandlers,
                   eventHandlers, errorEvents, errorTimers, requests, net, jobs,
                   answers, inputListeners, handles, errorHandlers, escaped, sendCalls,
                   lastCall>>

\* the bus delivers the subscribed event to the wrapper, possibly while an
\* earlier invocation of the listener is still running: the wrapper calls
\* the listener when its variable unbind is set
DeliverOnce(s) ==
    /\ onceSub[s].bound
    /\ onceSub[s].deliveries < MaxDeliveries
    /\ onceSub' = [onceSub EXCEPT
                      ![s].deliveries = @ + 1,
                      ![s].invoked = IF onceSub[s].unbind THEN @ + 1 ELSE @,
                      ![s].running = IF onceSub[s].unbind THEN @ + 1 ELSE @]
    /\ UNCHANGED <<now, requestTimeout, cleanupTime, freeClears, isDisposed, isOpen,
                   channel, hasTable, pendingRequests, subscriptions, listeners,
                   transportDisposed, running, nextTick, requestHandlers,
                   eventHandlers, errorEvents, errorTimers, requests, net, jobs,
                   answers, inputListeners, handles, errorHandlers, escaped, sendCalls,
                   lastCall>>

\* the innermost running invocation of the listener returns: the wrapper
\* calls unbind() and clears the variable; when an inner invocation has
\* cleared it already, unbind() is a call of undefined and raises
ListenerReturns(s) ==
    /\ onceSub[s].running > 0
    /\ onceSub' = [onceSub EXCEPT
                      ![s].running = @ - 1,
                      ![s].bound = IF onceSub[s].unbind THEN FALSE ELSE @,
                      ![s].unbind = FALSE,
                      ![s].thrown = IF onceSub[s].unbind THEN @ ELSE @ + 1]
    /\ UNCHANGED <<now, requestTimeout, cleanupTime, freeClears, isDisposed, isOpen,
                   channel, hasTable, pendingRequests, subscriptions, listeners,
                   transportDisposed, running, nextTick, requestHandlers,
                   eventHandlers, errorEvents, errorTimers, requests, net, jobs,
                   answers, inputListeners, handles, errorHandlers, escaped, sendCalls,
                   lastCall>>

\* the innermost running invocation of the listener raises: the exception
\* leaves the wrapper before unbind() is reached
ListenerRaises(s) ==
    /\ onceSub[s].running > 0
    /\ onceSub' = [onceSub EXCEPT ![s].running = @ - 1, ![s].thrown = @ + 1]
    /\ UNCHANGED <<now, requestTimeout, cleanupTime, freeClears, isDisposed, isOpen,
                   channel, hasTable, pendingRequests, subscriptions, listeners,
                   transportDisposed, running, nextTick, requestHandlers,
                   eventHandlers, errorEvents, errorTimers, requests, net, jobs,
                   answers, inputListeners, handles, errorHandlers, escaped, sendCalls,
                   lastCall>>

\* __handleEvent; raises: one of the event's handlers raises while the bus
\* delivers the event; errRaises: one of the 'error' subscribers raises while
\* the bus delivers the error event emitted in the catch block
HandleEvent(m, raises, errRaises) ==
    /\ Arrives(m)
    /\ m.kind = EVENTS
    /\ raises => eventHandlers[m.to] > 0
    /\ errRaises => raises /\ errorHandlers[m.to] > 0
    /\ net' = net \ {m}
    /\ errorEvents' = IF raises THEN PublishError(m.to) ELSE errorEvents
    /\ escaped' = IF errRaises THEN [escaped EXCEPT ![m.to] = @ + 1] ELSE escaped
    /\ UNCHANGED <<now, requestTimeout, cleanupTime, freeClears, isDisposed, isOpen,
                   channel, hasTable, pendingRequests, subscriptions, listeners,
                   transportDisposed, running, nextTick, requestHandlers, eventHandlers,
                   errorTimers, requests, jobs, answers, lastCall, inputListeners,
                   handles, errorHandlers, sendCalls, onceSub>>

\* a socket that believes every path has a handler
HasEveryHandler(s, path) == TRUE

\* __hasHandler
HasHandler(s, path) == Len(requestHandlers[s][path]) > 0

\* the err argument of __sendResponse for each kind of answer
AnswerError(kind, path) ==
    CASE kind = "value" -> NoError
      [] kind = "fulfilled" -> NoError
      [] kind = "error" -> Boom
      [] kind = "rejected" -> Boom
      [] kind = "throw" -> UnhandledExceptionError(Boom)
      [] kind = "notfound" -> NotFoundError(path)
      [] kind = "unhandled send" -> UnhandledExceptionError(SendFailure)
      [] kind = "send failure" -> SendFailure

\* the answers __handleRequest sends before it returns: not found when no
\* handler is registered, else one for each handler that answers at once
SyncAnswers(s, path) ==
    IF ~HasHandler(s, path) THEN <<"notfound">>
    ELSE SelectSeq(requestHandlers[s][path], LAMBDA beh : beh # "async")

RequestResponses(s, m) ==
    LET ks == SyncAnswers(s, m.path)
    IN  {ResponseMsg(s, m.path, m.id, AnswerError(ks[i], m.path),
                     HandlerValue(m.payload), Len(answers[m.id]) + i) : i \in 1..Len(ks)}

\* __handleRequest and the __responder of each handler it reaches
HandleRequest(m) ==
    /\ Arrives(m)
    /\ m.kind = REQUESTS
    /\ LET s == m.to
           hs == requestHandlers[s][m.path]
           ks == SyncAnswers(s, m.path)
       IN  /\ net' = (net \ {m}) \cup RequestResponses(s, m)
           /\ answers' = [answers EXCEPT ![m.id] = @ \o ks]
           /\ sendCalls' = [sendCalls EXCEPT ![m.id] = @ + Len(ks)]
           /\ errorTimers' = [errorTimers EXCEPT ![s] =
                  @ + Len(SelectSeq(ks, LAMBDA k : IsError(AnswerError(k, m.path))))]
           /\ jobs' = jobs \cup {[sock |-> s, path |-> m.path, id |-> m.id,
                                  payload |-> m.payload, h |-> i, chan |-> m.chan[1]] :
                                    i \in {k \in 1..Len(hs) : hs[k] = "async"}}
    /\ UNCHANGED <<now, requestTimeout, cleanupTime, freeClears, isDisposed, isOpen,
                   channel, hasTable, pendingRequests, subscriptions, listeners,
                   transportDisposed, running, nextTick, requestHandlers, eventHandlers,
                   errorEvents, requests, lastCall, inputListeners, handles,
                   errorHandlers, escaped, onceSub>>

\* the __transport.send calls one invocation of __responder makes when
\* send raises, for a handler of the given kind: a raise inside the try block
\* is caught and answered with a second __sendResponse
AttemptsWhenSendRaises(kind) ==
    CASE kind = "value" -> 2
      [] kind = "error" -> 2
      [] kind = "fulfilled" -> 2
      [] kind = "throw" -> 1
      [] kind = "rejected" -> 1
      [] kind = "notfound" -> 1

\* the setTimeout callbacks __sendResponse schedules during those attempts:
\* one for each attempt whose err argument is an error
TimersWhenSendRaises(kind) ==
    CASE kind = "value" -> 1
      [] kind = "error" -> 2
      [] kind = "fulfilled" -> 1
      [] kind = "throw" -> 1
      [] kind = "rejected" -> 1
      [] kind = "notfound" -> 1

\* __handleRequest for a path with at most one handler, which answers at
\* once, when __transport.send raises; fail: only the first call of send
\* raises, or all of them do
HandleRequestSendFails(m, fail) ==
    /\ Arrives(m)
    /\ m.kind = REQUESTS
    /\ Len(requestHandlers[m.to][m.path]) <= 1
    /\ SyncAnswers(m.to, m.path) # <<>>
    /\ LET s == m.to
           kind == SyncAnswers(s, m.path)[1]
           calls == AttemptsWhenSendRaises(kind)
           sent == fail = "first" /\ calls = 2
       IN  /\ sendCalls' = [sendCalls EXCEPT ![m.id] = @ + calls]
           /\ errorTimers' = [errorTimers EXCEPT ![s] = @ + TimersWhenSendRaises(kind)]
           /\ net' = (net \ {m}) \cup
                  IF sent
                  THEN {ResponseMsg(s, m.path, m.id,
                                    AnswerError("unhandled send", m.path), <<>>,
                                    Len(answers[m.id]) + 1)}
                  ELSE {}
           /\ answers' = [answers EXCEPT ![m.id] =
                              IF sent THEN Append(@, "unhandled send") ELSE @]
           \* the raise of the last call leaves __responder and __handleRequest
           /\ escaped' = [escaped EXCEPT ![s] = IF sent THEN @ ELSE @ + 1]
    /\ UNCHANGED <<now, requestTimeout, cleanupTime, freeClears, isDisposed, isOpen,
                   channel, hasTable, pendingRequests, subscriptions, listeners,
                   transportDisposed, running, nextTick, requestHandlers, eventHandlers,
                   errorEvents, requests, jobs, lastCall, inputListeners, handles,
                   errorHandlers, onceSub>>

\* a deferred handler result settles when __transport.send raises: a raise in
\* then() is caught by catch(), which answers with the exception of the send;
\* a raise in catch() is an unhandled rejection
JobSettleSendFails(j, fulfilled, fail) ==
    /\ j \in jobs
    /\ jobs' = jobs \ {j}
    /\ LET s == j.sock
           kind == IF fulfilled THEN "fulfilled" ELSE "rejected"
           calls == AttemptsWhenSendRaises(kind)
           sent == fail = "first" /\ calls = 2
       IN  /\ sendCalls' = [sendCalls EXCEPT ![j.id] = @ + calls]
           /\ errorTimers' = [errorTimers EXCEPT ![s] = @ + TimersWhenSendRaises(kind)]
           /\ net' = net \cup
                  IF sent
                  THEN {ResponseMsg(s, j.path, j.id,
                                    AnswerError("send failure", j.path), <<>>,
                                    Len(answers[j.id]) + 1)}
                  ELSE {}
           /\ answers' = [answers EXCEPT ![j.id] =
                              IF sent THEN Append(@, "send failure") ELSE @]
    /\ UNCHANGED <<now, requestTimeout, cleanupTime, freeClears, isDisposed, isOpen,
                   channel, hasTable, pendingRequests, subscriptions, listeners,
                   transportDisposed, running, nextTick, requestHandlers, eventHandlers,
                   errorEvents, requests, lastCall, inputListeners, handles,
                   errorHandlers, escaped, onceSub>>

\* a deferred handler result settles: fulfilled with the handler's value or
\* rejected with an error; the answer goes out through __sendResponse
JobSettle(j, fulfilled) ==
    /\ j \in jobs
    /\ jobs' = jobs \ {j}
    /\ LET s == j.sock
           kind == IF fulfilled THEN "fulfilled" ELSE "rejected"
       IN  IF transportDisposed[s]
           THEN \* the send raises in then() and again in catch(), which has
                \* scheduled the publication of the error
                /\ errorTimers' = [errorTimers EXCEPT ![s] = @ + 1]
                /\ sendCalls' = [sendCalls EXCEPT ![j.id] =
                                     IF fulfilled THEN @ + 2 ELSE @ + 1]
                /\ UNCHANGED <<net, answers>>
           ELSE /\ net' = net \cup {ResponseMsg(s, j.path, j.id, AnswerError(kind, j.path),
                                        HandlerValue(j.payload), Len(answers[j.id]) + 1)}
                /\ answers' = [answers EXCEPT ![j.id] = Append(@, kind)]
                /\ sendCalls' = [sendCalls EXCEPT ![j.id] = @ + 1]
                /\ errorTimers' = [errorTimers EXCEPT ![s] =
                                       IF fulfilled THEN @ ELSE @ + 1]
    /\ UNCHANGED <<now, requestTimeout, cleanupTime, freeClears, isDisposed, isOpen,
                   channel, hasTable, pendingRequests, subscriptions, listeners,
                   transportDisposed, running, nextTick, requestHandlers, eventHandlers,
                   errorEvents, requests, lastCall, inputListeners, handles,
                   errorHandlers, escaped, onceSub>>

\* the callback __sendResponse deferred with setTimeout publishes the error
EmitDeferred(s) ==
    /\ errorTimers[s] > 0
    /\ errorTimers' = [errorTimers EXCEPT ![s] = @ - 1]
    /\ errorEvents' = [errorEvents EXCEPT ![s] =
                           IF isDisposed[s] /\ freeClears = "yes" THEN @ ELSE @ + 1]
    /\ UNCHANGED <<now, requestTimeout, cleanupTime, freeClears, isDisposed, isOpen,
                   channel, hasTable, pendingRequests, subscriptions, listeners,
                   transportDisposed, running, nextTick, requestHandlers, eventHandlers,
                   requests, net, jobs, answers, lastCall, inputListeners, handles,
                   errorHandlers, escaped, sendCalls, onceSub>>

\* __handleResponse with the two branches exchanged
ResponseOutcomeSwapped(m) ==
    IF Truthy(m.payload) THEN Rejected(ErrorFromText(m.payload)) ELSE Resolved(m.err)

\* how __handleResponse settles the request a response is for
ResponseOutcome(m) ==
    IF Truthy(m.err) THEN Rejected(ErrorFromText(m.err)) ELSE Resolved(m.payload)

\* __handleResponse
HandleResponse(m) ==
    /\ Arrives(m)
    /\ m.kind = RESPONSES
    /\ net' = net \ {m}
    /\ LET s == m.to
       IN  IF ~hasTable[s]
           THEN UNCHANGED <<requests, pendingRequests, errorEvents>>
           ELSE IF m.id \in pendingRequests[s]
           THEN /\ requests' = [requests EXCEPT ![m.id] = Settle(@, ResponseOutcome(m))]
                /\ pendingRequests' = Forget(s, {m.id})
                /\ UNCHANGED errorEvents
           ELSE /\ errorEvents' = PublishError(s)
                /\ UNCHANGED <<requests, pendingRequests>>
    /\ UNCHANGED <<now, requestTimeout, cleanupTime, freeClears, isDisposed, isOpen,
                   channel, hasTable, subscriptions, listeners, transportDisposed,
                   running, nextTick, requestHandlers, eventHandlers, errorTimers, jobs,
                   answers, lastCall, inputListeners, handles, errorHandlers, escaped,
                   sendCalls, onceSub>>

\* ------------------------------------------------------------- the sweep
\* the sweep comparing a request's age with the sweep period
HangingByPeriod(r, time) == time - r.timestamp > cleanupTime

\* currentTimestamp - request.timestamp > requestTimeout
Hanging(r, time) == time - r.timestamp > requestTimeout

\* the requests __cleanup of socket s rejects at the given time
HangingRequests(s, time) ==
    IF ~hasTable[s] THEN {}
    ELSE {id \in pendingRequests[s] : Hanging(requests[id], time)}

\* the sockets whose interval falls due at the given time
Due(time) == {s \in Sockets : running[s] /\ nextTick[s] = time}

\* one unit of time passes; each interval that falls due calls __cleanup,
\* which rejects the hanging requests of its socket and removes them
Tick ==
    /\ now' = now + 1
    /\ LET due == Due(now + 1)
           hanging == UNION {HangingRequests(s, now + 1) : s \in due}
       IN  /\ requests' = RejectAll(requests, hanging, TimeoutError)
           /\ pendingRequests' = [s \in Sockets |->
                  IF s \in due THEN Forget(s, hanging)[s] ELSE pendingRequests[s]]
           /\ nextTick' = [s \in Sockets |->
                  IF s \in due THEN now + 1 + cleanupTime ELSE nextTick[s]]
    /\ UNCHANGED <<requestTimeout, cleanupTime, freeClears, isDisposed, isOpen, channel,
                   hasTable, subscriptions, listeners, transportDisposed, running,
                   requestHandlers, eventHandlers, errorEvents, errorTimers, net, jobs,
                   answers, lastCall, inputListeners, handles, errorHandlers, escaped,
                   sendCalls, onceSub>>

\* ------------------------------------------------------ specifications
\* Both sockets open and close sessions on one channel; A creates up to
\* MaxReq requests, B registers one handler for path "p" at some moment and
\* answers, and time passes up to MaxTime; every call is a permitted one.
MayRequest(s) == s \in Requesters /\ Len(requests) < MaxReq
MayRegister(s) == s \in Responders /\ TotalHandlers(s) = 0

Next ==
    \/ \E s \in Sockets : ~isOpen[s] /\ Open(s, "c1")
    \/ \E s \in Sockets : isOpen[s] /\ Close(s)
    \/ \E s \in Sockets, path \in Paths, payload \in Payloads, fails \in BOOLEAN :
           MayRequest(s) /\ isOpen[s] /\ Request(s, path, payload, fails)
    \/ \E s \in Sockets, beh \in Behaviours : MayRegister(s) /\ OnRequest(s, "p", beh)
    \/ \E m \in net : Drop(m)
    \/ \E m \in net : HandleRequest(m)
    \/ \E m \in net : HandleResponse(m)
    \/ \E j \in jobs, fulfilled \in BOOLEAN : JobSettle(j, fulfilled)
    \/ \E s \in Sockets : EmitDeferred(s)
    \/ now < MaxTime /\ Tick

Spec == Init /\ [][Next]_vars

\* Every public call on socket A in every lifecycle state, the refused calls
\* and dispose() included; its peer never opens, so what A sends is lost.
LifecycleNext ==
    \/ \E ch \in Channels : Open("A", ch)
    \/ Close("A")
    \/ \E clears \in BOOLEAN : Dispose("A", clears)
    \/ \E path \in Paths, payload \in Payloads, fails \in BOOLEAN :
           Len(requests) < MaxReq /\ Request("A", path, payload, fails)
    \/ \E payload \in Payloads : Send("A", payload)
    \/ \E path \in Paths :
           TotalHandlers("A") < MaxHandlers /\ OnRequest("A", path, "value")
    \/ eventHandlers["A"] < MaxHandlers /\ OnEvent("A")
    \/ \E m \in net : Drop(m)

LifecycleSpec == Init /\ [][LifecycleNext]_vars

\* One socket under any settings: requests that are never answered, and time.
TimeoutNext ==
    \/ \E ch \in Channels : ~isOpen["A"] /\ Open("A", ch)
    \/ isOpen["A"] /\ Close("A")
    \/ \E path \in Paths, payload \in Payloads :
           Len(requests) < MaxReq /\ isOpen["A"] /\ Request("A", path, payload, FALSE)
    \/ now < MaxClock /\ Tick

TimeoutSpec == SettingsInit /\ [][TimeoutNext]_vars

\* Both sockets open once and stay open; A has up to MaxOutstanding requests
\* outstanding at once, with payloads that tell them apart, some of them with
\* a send that raises; B answers them and the responses arrive in any order.
MatchNext ==
    \/ \E s \in Sockets : ~hasTable[s] /\ Open(s, "c1")
    \/ \E beh \in {"value", "error"} : MayRegister("B") /\ OnRequest("B", "p", beh)
    \/ \E path \in Paths, payload \in MatchPayloads, fails \in BOOLEAN :
           /\ isOpen["A"]
           /\ Len(requests) < MaxOutstanding
           /\ Request("A", path, payload, fails)
    \/ \E m \in net : Drop(m)
    \/ \E m \in net : HandleRequest(m)
    \/ \E m \in net : HandleResponse(m)
    \/ \E s \in Sockets : EmitDeferred(s)

MatchSpec == Init /\ [][MatchNext]_vars

\* Both sockets open, close and open again on any channel; B serves path "p"
\* at once or through a deferred result, which may settle in a later session.
ReopenNext ==
    \/ \E s \in Sockets, ch \in Channels : ~isOpen[s] /\ Open(s, ch)
    \/ \E s \in Sockets : isOpen[s] /\ Close(s)
    \/ \E beh \in {"value", "async"} : MayRegister("B") /\ OnRequest("B", "p", beh)
    \/ \E payload \in Payloads :
           MayRequest("A") /\ isOpen["A"] /\ Request("A", "p", payload, FALSE)
    \/ \E m \in net : Drop(m)
    \/ \E m \in net : HandleRequest(m)
    \/ \E m \in net : HandleResponse(m)
    \/ \E j \in jobs, fulfilled \in BOOLEAN : JobSettle(j, fulfilled)
    \/ \E s \in Sockets : EmitDeferred(s)

ReopenSpec == Init /\ [][ReopenNext]_vars

\* A Transport used on its own: subscriptions, cancel handles called any
\* number of times up to MaxCancels, sends, and one dispose().
TransportNext ==
    \/ \E ch \in Channels :
           /\ Cardinality(DOMAIN handles["A"]) < MaxSubscriptions
           /\ TransportSubscribe("A", SubChannel(ch, EVENTS))
    \/ \E id \in DOMAIN handles["A"] :
           handles["A"][id] < MaxCancels /\ TransportCancel("A", id)
    \/ TransportDispose("A")
    \/ \E ch \in Channels : TransportSend("A", SubChannel(ch, EVENTS))
    \/ \E m \in net : Drop(m)

TransportSpec == Init /\ [][TransportNext]_vars

\* The sockets send each other events; each has up to MaxEventHandlers
\* handlers for the event and for errors, and any of them may raise while it
\* is being called.
EventNext ==
    \/ \E s \in Sockets : ~hasTable[s] /\ Open(s, "c1")
    \/ \E s \in Sockets : eventHandlers[s] < MaxEventHandlers /\ OnEvent(s)
    \/ \E s \in Sockets : errorHandlers[s] < MaxEventHandlers /\ OnError(s)
    \/ \E s \in Sockets, payload \in Payloads : isOpen[s] /\ Send(s, payload)
    \/ \E m \in net : Drop(m)
    \/ \E m \in net, raises \in BOOLEAN, errRaises \in BOOLEAN :
           errorEvents[m.to] < MaxErrors /\ HandleEvent(m, raises, errRaises)

EventSpec == Init /\ [][EventNext]_vars

\* B serves path "p" with one handler of any kind and answers A's requests
\* over a transport whose send may raise.
ResponderNext ==
    \/ \E s \in Sockets : ~hasTable[s] /\ Open(s, "c1")
    \/ \E beh \in Behaviours : MayRegister("B") /\ OnRequest("B", "p", beh)
    \/ \E path \in Paths, payload \in Payloads :
           MayRequest("A") /\ isOpen["A"] /\ Request("A", path, payload, FALSE)
    \/ \E m \in net : Drop(m)
    \/ \E m \in net : HandleRequest(m)
    \/ \E m \in net, fail \in {"first", "all"} : HandleRequestSendFails(m, fail)
    \/ \E j \in jobs, fulfilled \in BOOLEAN : JobSettle(j, fulfilled)
    \/ \E j \in jobs, fulfilled \in BOOLEAN, fail \in {"first", "all"} :
           JobSettleSendFails(j, fulfilled, fail)
    \/ \E m \in net : HandleResponse(m)
    \/ \E s \in Sockets : EmitDeferred(s)

ResponderSpec == Init /\ [][ResponderNext]_vars

\* Each socket makes one once-subscription; the bus delivers its event up to
\* MaxDeliveries times, one after the other or re-entrantly.
OnceNext ==
    \/ \E s \in Sockets, kind \in OnceKinds : SubscribeOnce(s, kind)
    \/ \E s \in Sockets : CancelOnce(s)
    \/ \E s \in Sockets : DeliverOnce(s)
    \/ \E s \in Sockets : ListenerReturns(s)
    \/ \E s \in Sockets : ListenerRaises(s)

OnceSpec == Init /\ [][OnceNext]_vars

\* =================================================================
\* Properties

\* every variable but lastCall: what a refused call must leave alone
state == <<now, requestTimeout, cleanupTime, freeClears, isDisposed, isOpen, channel,
           hasTable, pendingRequests, subscriptions, listeners, transportDisposed,
           running, nextTick, requestHandlers, eventHandlers, errorEvents, errorTimers,
           requests, net, jobs, answers, inputListeners, handles, errorHandlers,
           escaped, sendCalls, onceSub>>

\* the responding side answered request id once, with the value its handler
\* returned (at once, or as a deferred result that fulfilled)
AnsweredWithValue(id) == answers[id] \in {<<"value">>, <<"fulfilled">>}

\* ------------------------------------------------------------------ C1
\* C1 as the specification states it: when the responder's handler returns
\* v, the requester's future resolves with v, unless the requester closed.
C1_AlwaysResolves ==
    \A id \in DOMAIN requests :
        LET r == requests[id]
        IN  (/\ AnsweredWithValue(id)
             /\ IsDisposed(r)
             /\ r.outcome # Rejected(ConnectionLostError))
            => r.outcome = Resolved(HandlerValue(r.payload))

C1_Outcomes ==
    \A id \in DOMAIN requests :
        LET r == requests[id]
        IN  /\ (AnsweredWithValue(id) /\ IsDisposed(r))
                => r.outcome \in {Resolved(HandlerValue(r.payload)),
                                  Rejected(TimeoutError),
                                  Rejected(ConnectionLostError)}
            /\ r.outcome = Rejected(TimeoutError) => now - r.timestamp > requestTimeout

C1_Delivery ==
    \A m \in net :
        (/\ HandleResponse(m)
         /\ m.id \in pendingRequests[m.to]
         /\ AnsweredWithValue(m.id))
        => requests'[m.id].outcome = Resolved(HandlerValue(requests[m.id].payload))

\* C1: when the responder's handler returns v for a request, the response
\* that reaches the requester while the request is still in its table
\* resolves the future with exactly v; the future of such a request is never
\* settled in any other way than with v, with a timeout error after a sweep
\* found it older than the request timeout, or with a connection-lost error.
C1_RoundTrip == []C1_Outcomes /\ [][C1_Delivery]_vars

\* a request resolved with the value a deferred handler result fulfilled with
C1_Witness ==
    \E id \in DOMAIN requests :
        /\ answers[id] = <<"fulfilled">>
        /\ requests[id].outcome = Resolved(HandlerValue(requests[id].payload))

\* ------------------------------------------------------------------ C2
C2_Once ==
    \A id \in DOMAIN requests :
        LET r == requests[id]
        IN  /\ r.calls <= 1
            /\ r.settles <= 1
            /\ IsDisposed(r) <=> r.settles = 1

C2_Stable ==
    \A id \in DOMAIN requests :
        IsDisposed(requests[id]) => requests'[id] = requests[id]

\* C2: resolve or reject is invoked at most once on every outbound request,
\* whatever the order of its response, the sweep, close() and a failed send;
\* once a request is settled no later step settles it again or changes its
\* outcome.
C2_SettlesOnce == []C2_Once /\ [][C2_Stable]_vars

\* a request the sweep rejected, whose response came in afterwards and was
\* reported as redundant
C2_Witness ==
    \E id \in DOMAIN requests :
        /\ requests[id].outcome = Rejected(TimeoutError)
        /\ answers[id] # <<>>
        /\ \A m \in net : m.id # id
        /\ errorEvents[requests[id].owner] > 0

\* ------------------------------------------------------------------ C3
\* C3 as the specification states it: close() on an open socket rejects every
\* outstanding request with a connection-lost error and leaves the
\* pending-request table empty.
C3_CloseEmptiesTable ==
    [][\A s \in Sockets :
           (isOpen[s] /\ ~isDisposed[s] /\ Close(s))
           => /\ \A id \in pendingRequests[s] :
                     requests'[id].outcome = Rejected(ConnectionLostError)
              /\ pendingRequests'[s] = {}]_vars

\* ------------------------------------------------------------------ C4
Age(r) == now - r.timestamp

C4_NotOverdue ==
    \A id \in pendingRequests["A"] :
        (isOpen["A"] /\ ~IsDisposed(requests[id]))
        => Age(requests[id]) < requestTimeout + cleanupTime

C4_Window ==
    \A id \in DOMAIN requests :
        (/\ ~IsDisposed(requests[id])
         /\ requests'[id].outcome = Rejected(TimeoutError))
        => /\ now' - requests[id].timestamp >= requestTimeout
           /\ now' - requests[id].timestamp <= requestTimeout + cleanupTime

\* C4: on an open socket a request that is never answered is rejected with a
\* timeout error when its age is at least the request timeout and at most the
\* request timeout plus the sweep period, and it is never still pending
\* beyond that age.
C4_TimeoutWindow == []C4_NotOverdue /\ [][C4_Window]_vars

\* a request the sweep has just rejected at the latest moment allowed
C4_Witness ==
    \E id \in DOMAIN requests :
        /\ requests[id].outcome = Rejected(TimeoutError)
        /\ Age(requests[id]) = requestTimeout + cleanupTime
        /\ cleanupTime > 1

\* ------------------------------------------------------------------ C5
C5_Refusals ==
    /\ \A ch \in Channels :
           (isOpen["A"] /\ ~isDisposed["A"] /\ Open("A", ch))
           => /\ lastCall'["A"] = Raised("open", "SocketOpen")
              /\ UNCHANGED state
    /\ (~isOpen["A"] /\ ~isDisposed["A"] /\ Close("A"))
       => /\ lastCall'["A"] = Raised("close", "SocketClosed")
          /\ UNCHANGED state

\* C5: open() on an open socket raises the socket-open error and close() on a
\* closed socket raises the socket-closed error, and neither changes anything:
\* subscriptions, listeners, the pending table and its requests, the channel
\* and isOpen all keep their values.
C5_RefusedCallsChangeNothing == [][C5_Refusals]_vars

\* open() was just refused on an open socket that has a request pending
C5_Witness ==
    /\ isOpen["A"]
    /\ lastCall["A"] = Raised("open", "SocketOpen")
    /\ \E id \in pendingRequests["A"] : ~IsDisposed(requests[id])

\* ------------------------------------------------------------------ C6
CallOnA ==
    \/ \E ch \in Channels : Open("A", ch)
    \/ Close("A")
    \/ \E payload \in Payloads : Send("A", payload)
    \/ \E path \in Paths, payload \in Payloads, fails \in BOOLEAN :
           Request("A", path, payload, fails)
    \/ OnEvent("A")
    \/ \E path \in Paths : OnRequest("A", path, "value")

\* C6 as the specification states it: on a disposed socket open, close, send,
\* request, onEvent and onRequest all raise the disposed error and do
\* nothing else.
C6_DisposedRefusesAll ==
    [][(isDisposed["A"] /\ CallOnA)
       => /\ lastCall'["A"].err = "Disposed"
          /\ UNCHANGED state]_vars

\* ------------------------------------------------------------------ C7
\* C7 as the specification states it: dispose() on a disposed socket returns
\* without raising and changes no state.
C7_DisposeIdempotent ==
    [][\A clears \in BOOLEAN :
           (isDisposed["A"] /\ Dispose("A", clears))
           => /\ lastCall'["A"] = Returned
              /\ UNCHANGED state]_vars

\* ------------------------------------------------------------------ C8
\* C8 as the specification states it: dispose() on an open socket returns
\* without raising, stops the sweep, cancels the transport subscriptions and
\* rejects every pending request with a connection-lost error.
C8_DisposeCloses ==
    [][\A clears \in BOOLEAN :
           (isOpen["A"] /\ ~isDisposed["A"] /\ Dispose("A", clears))
           => /\ lastCall'["A"] = Returned
              /\ ~running'["A"]
              /\ listeners'["A"] = {}
              /\ \A id \in pendingRequests["A"] :
                     ~IsDisposed(requests[id])
                     => requests'[id].outcome = Rejected(ConnectionLostError)]_vars

\* ------------------------------------------------------------------ C9
\* the error the requester builds from the text of a not-found response
NotFoundAsReceived(path) == ErrorFromText(Message(NotFoundError(path)))

\* C9 as the specification states it: a request that finds no handler is
\* settled with a not-found error whose field is the path.
C9_NotFoundErrorWithPath ==
    \A id \in DOMAIN requests :
        LET r == requests[id]
        IN  (/\ answers[id] = <<"notfound">>
             /\ IsDisposed(r)
             /\ r.outcome \notin {Rejected(TimeoutError), Rejected(ConnectionLostError)})
            => /\ r.outcome.type = "NotFoundError"
               /\ r.outcome.field = r.path

C9_Answer ==
    \A m \in net :
        (HandleRequest(m) /\ Len(requestHandlers[m.to][m.path]) = 0)
        => /\ answers'[m.id] = answers[m.id] \o <<"notfound">>
           /\ \E n \in net' \ net :
                  /\ net' = (net \ {m}) \cup {n}
                  /\ n.kind = RESPONSES /\ n.id = m.id /\ n.path = m.path
                  /\ n.err = Message(NotFoundError(m.path))
                  /\ n.payload = <<>>

C9_Settles ==
    \A id \in DOMAIN requests :
        LET r == requests[id]
        IN  (answers[id] = <<"notfound">> /\ IsDisposed(r))
            => r.outcome \in {Rejected(NotFoundAsReceived(r.path)),
                              Rejected(TimeoutError),
                              Rejected(ConnectionLostError)}

C9_Delivery ==
    \A m \in net :
        (/\ HandleResponse(m)
         /\ m.id \in pendingRequests[m.to]
         /\ answers[m.id] = <<"notfound">>)
        => requests'[m.id].outcome = Rejected(NotFoundAsReceived(m.path))

\* C9: a request received while no handler is registered for its path is
\* answered with exactly one response, which carries the text of a not-found
\* error for that path together with the request's path and id; when it
\* reaches the requester while the request is pending, the future is rejected
\* with a plain error built from that text, which names the path in its
\* message only: its class is not the not-found class and it has no path field.
C9_NotFoundAnswer == []C9_Settles /\ [][C9_Answer /\ C9_Delivery]_vars

\* a request rejected with the plain error built from a not-found response
C9_Witness ==
    \E id \in DOMAIN requests :
        /\ answers[id] = <<"notfound">>
        /\ requests[id].outcome = Rejected(NotFoundAsReceived(requests[id].path))

\* ----------------------------------------------------------------- C10
C10_Redundant ==
    \A m \in net :
        (/\ HandleResponse(m)
         /\ hasTable[m.to]
         /\ m.id \notin pendingRequests[m.to])
        => /\ errorEvents' = [errorEvents EXCEPT ![m.to] = @ + 1]
           /\ net' = net \ {m}
           /\ UNCHANGED <<requests, pendingRequests, hasTable, errorTimers, jobs,
                          answers, listeners, subscriptions, isOpen, channel>>

C12_Lockstep ==
    \A s \in Sockets :
        /\ isOpen[s] <=> channel[s] # "undefined"
        /\ isOpen[s] <=> hasTable[s]

\* ----------------------------------------------------------------- C20
\* C20: while a socket is open every request in its pending-request table is
\* unsettled; a request that a response, a sweep tick, a failed send or a
\* close() of an earlier session has settled is not in the table.
C20_TableHoldsUnsettled ==
    \A s \in Sockets :
        isOpen[s] => \A id \in pendingRequests[s] : ~IsDisposed(requests[id])

\* the socket is open again after a close() that rejected a request, and the
\* request is not in the table of the new session
C20_Witness ==
    /\ isOpen["A"]
    /\ \E id \in DOMAIN requests :
           /\ requests[id].owner = "A"
           /\ requests[id].outcome = Rejected(ConnectionLostError)
           /\ id \notin pendingRequests["A"]

\* ----------------------------------------------------------------- C13
\* what the response B sent for request r settles r with
OwnAnswer(r, kind) ==
    CASE kind = "value" -> Resolved(HandlerValue(r.payload))
      [] kind = "error" -> Rejected(ErrorFromText(Message(Boom)))
      [] kind = "notfound" -> Rejected(NotFoundAsReceived(r.path))
      [] OTHER -> Unsettled

C13_ByOwnAnswer ==
    \A id \in DOMAIN requests :
        (IsDisposed(requests[id]) /\ answers[id] # <<>>)
        => requests[id].outcome = OwnAnswer(requests[id], answers[id][1])

C13_ById ==
    \A m \in net :
        (HandleResponse(m) /\ m.id \in pendingRequests[m.to])
        => /\ requests'[m.id].outcome =
                  IF m.err # <<>> THEN Rejected(ErrorFromText(m.err))
                  ELSE Resolved(m.payload)
           /\ \A id \in DOMAIN requests \ {m.id} : requests'[id] = requests[id]
           /\ pendingRequests'[m.to] = pendingRequests[m.to] \ {m.id}

\* C13: with several requests outstanding, a response settles the pending
\* request whose id it carries with its own payload or error text, removes
\* that entry only and leaves every other request as it was; whatever the
\* order of arrival, each request ends with the answer that was given to it.
C13_MatchedById == []C13_ByOwnAnswer /\ [][C13_ById]_vars

\* the later of two answered requests is settled while the earlier one is
\* still pending
C13_Witness ==
    \E i, j \in DOMAIN requests :
        /\ i < j
        /\ answers[i] # <<>> /\ answers[j] # <<>>
        /\ i \in pendingRequests["A"] /\ ~IsDisposed(requests[i])
        /\ IsDisposed(requests[j])
        /\ requests[i].payload # requests[j].payload

\* ----------------------------------------------------------------- C15
C15_FailedSend ==
    \A path \in Paths, payload \in MatchPayloads :
        (isOpen["A"] /\ ~isDisposed["A"] /\ Request("A", path, payload, TRUE))
        => LET id == Len(requests) + 1
           IN  /\ requests'[id].outcome = Rejected(UnhandledExceptionError(SendFailure))
               /\ \A i \in DOMAIN requests : requests'[i] = requests[i]
               /\ pendingRequests' = pendingRequests
               /\ errorEvents'["A"] = errorEvents["A"] + 1
               /\ net' = net

\* C15: when the transport's send raises inside request(), the new request is
\* rejected with an unhandled-exception error that wraps the cause, the
\* pending-request table is as it was before the call, no message is sent and
\* one error event is published.
C15_SendFailureInRequest == [][C15_FailedSend]_vars

\* a request whose send raised, made while another request was pending
C15_Witness ==
    \E id \in DOMAIN requests :
        /\ requests[id].outcome = Rejected(UnhandledExceptionError(SendFailure))
        /\ pendingRequests["A"] # {}
        /\ id \notin pendingRequests["A"]
        /\ errorEvents["A"] > 0

\* ----------------------------------------------------------------- C18
\* C18 as the specification states it: a response goes out on the responses
\* sub-channel of the channel its request was received on, also when it is
\* the answer of a deferred result that settles after a close() or a reopen.
C18_AnswersOnRequestChannel ==
    [][\A j \in jobs, fulfilled \in BOOLEAN :
           (JobSettle(j, fulfilled) /\ ~transportDisposed[j.sock])
           => \A n \in net' \ net : n.chan = SubChannel(j.chan, RESPONSES)]_vars

\* ----------------------------------------------------------------- C19
SubChannels(ch) == {SubChannel(ch, kind) : kind \in {EVENTS, REQUESTS, RESPONSES}}

C19_Subscriptions ==
    \A s \in Sockets :
        IF isOpen[s]
        THEN /\ Cardinality(inputListeners[s]) = 3
             /\ {l.chan : l \in inputListeners[s]} = SubChannels(channel[s])
             /\ listeners[s] = inputListeners[s]
             /\ subscriptions[s] = {l.id : l \in listeners[s]}
        ELSE /\ inputListeners[s] = {}
             /\ listeners[s] = {}

C19_Handled ==
    \A m \in net :
        (HandleRequest(m) \/ HandleResponse(m))
        => /\ isOpen[m.to]
           /\ m.chan \in SubChannels(channel[m.to])

\* C19: after any sequence of open() and close() on any channels a socket has
\* exactly three transport subscriptions while it is open, one for each
\* sub-channel of its channel, and none while it is closed; an inbound message
\* is handled only by an open socket, on a sub-channel of its current channel.
C19_ThreeSubscriptions == []C19_Subscriptions /\ [][C19_Handled]_vars

\* B is open on "c2" and still owes the answer of a request it received on "c1"
C19_Witness ==
    /\ isOpen["B"]
    /\ channel["B"] = "c2"
    /\ \E j \in jobs : j.sock = "B" /\ j.chan = "c1"

\* ----------------------------------------------------------------- C17
\* the handles returned to the caller and never called
LiveHandles(s) == {id \in DOMAIN handles[s] : handles[s][id] = 0}

C17_Bookkeeping ==
    \A s \in Sockets :
        IF transportDisposed[s]
        THEN listeners[s] = {} /\ inputListeners[s] = {}
        ELSE /\ \A id \in DOMAIN handles[s] :
                    /\ Cardinality({l \in listeners[s] : l.id = id}) =
                           IF id \in LiveHandles(s) THEN 1 ELSE 0
                    /\ Cardinality({l \in inputListeners[s] : l.id = id}) =
                           IF id \in LiveHandles(s) THEN 1 ELSE 0
             /\ inputListeners[s] = listeners[s]

C17_Refused ==
    \A ch \in Channels :
        (/\ transportDisposed["A"]
         /\ \/ TransportSubscribe("A", SubChannel(ch, EVENTS))
            \/ TransportSend("A", SubChannel(ch, EVENTS)))
        => /\ lastCall'["A"].err = "Disposed"
           /\ UNCHANGED state

\* C17: a Transport holds exactly one bookkeeping entry and one registration
\* on the underlying input for every subscription that was returned and not
\* cancelled, and none for a cancelled one, however often its handle is called;
\* after dispose() it holds no entry and no registration, and on() and send()
\* raise the disposed error and change nothing.
C17_TransportBookkeeping == []C17_Bookkeeping /\ [][C17_Refused]_vars

\* one handle was called twice while another subscription is still in place
C17_Witness ==
    /\ ~transportDisposed["A"]
    /\ \E id \in DOMAIN handles["A"] : handles["A"][id] = 2
    /\ LiveHandles("A") # {}
    /\ listeners["A"] # {}

\* ----------------------------------------------------------------- C16
\* C16 as the specification states it: when an event handler raises during
\* the delivery of an inbound event, one error event is published and no
\* exception leaves the socket's inbound-event handler, whatever handlers are
\* registered for the event or for errors.
C16_NothingEscapes ==
    [][\A m \in net, errRaises \in BOOLEAN :
           HandleEvent(m, TRUE, errRaises)
           => /\ errorEvents'[m.to] = errorEvents[m.to] + 1
              /\ escaped'[m.to] = escaped[m.to]]_vars

\* ----------------------------------------------------------------- C14
\* the handler of the path answers the request at once
AnswersAtOnce(m) ==
    /\ m.kind = REQUESTS
    /\ Len(requestHandlers[m.to][m.path]) = 1
    /\ requestHandlers[m.to][m.path][1] # "async"

\* C14 as the specification states it: every invocation of the
\* request-handler wrapper makes exactly one response send with the id of its
\* request, for a handler that answers at once and for a deferred result, also
\* when the transport's send raises.
C14_OneSendPerInvocation ==
    [][/\ \A m \in net, fail \in {"first", "all"} :
              (AnswersAtOnce(m) /\ (HandleRequest(m) \/ HandleRequestSendFails(m, fail)))
              => sendCalls'[m.id] = sendCalls[m.id] + 1
       /\ \A j \in jobs, fulfilled \in BOOLEAN, fail \in {"first", "all"} :
              (JobSettle(j, fulfilled) \/ JobSettleSendFails(j, fulfilled, fail))
              => sendCalls'[j.id] = sendCalls[j.id] + 1]_vars

\* the same when every send succeeds
C14_OneSendWhenSendWorks ==
    [][/\ \A m \in net :
              (AnswersAtOnce(m) /\ HandleRequest(m))
              => sendCalls'[m.id] = sendCalls[m.id] + 1
       /\ \A j \in jobs, fulfilled \in BOOLEAN :
              (JobSettle(j, fulfilled) /\ ~transportDisposed[j.sock])
              => sendCalls'[j.id] = sendCalls[j.id] + 1]_vars

\* ----------------------------------------------------------------- C11
\* C11 as the specification states it: the listener of a once-subscription
\* is never invoked more than once, whatever the deliveries, back-to-back or
\* re-entrant; it has been invoked once a delivery has reached it; and when
\* no invocation of it is running any more it is no longer subscribed.
C11_InvokedOnce ==
    \A s \in Sockets :
        onceSub[s].kind # "none" =>
            /\ onceSub[s].invoked <= 1
            /\ onceSub[s].deliveries >= 1 => onceSub[s].invoked = 1
            /\ (onceSub[s].invoked >= 1 /\ onceSub[s].running = 0) => ~onceSub[s].bound

====
